---- MODULE Spec2Model ----
(***************************************************************************)
(* Model of separate-then-together: the collaboration strategies           *)
(* (strategies.py), the session engine (session.py) and the agent's idea   *)
(* generation with its cumulative-summary cache (agent.py).                *)
(*                                                                         *)
(* Five specifications share the variables:                                *)
(*   Spec              one SessionEngine.run over a fresh strategy and an  *)
(*                     empty transcript, two agents with distinct names,   *)
(*                     and get_results_by_phase once run has ended;        *)
(*   SpecStrategy      a strategy object driven by arbitrary sequences of  *)
(*                     its public methods, filter_history reading an       *)
(*                     arbitrary transcript;                               *)
(*   SpecPersona       a PersonaSelector: construction and the two pair    *)
(*                     selections;                                         *)
(*   SpecAgent         one agent asked for compacted contexts of prefixes  *)
(*                     of a transcript, the transcript possibly replaced;  *)
(*   SpecAgentPrompts  one agent building the prompts of both phases for   *)
(*                     prefixes of one transcript.                         *)
(* A transcript record is [turn, role, phase, content]; the timestamp of   *)
(* session.py:101 is not modelled (no operation reads it).                 *)
(***************************************************************************)
EXTENDS Integers, Sequences, FiniteSets, TLC

\* ---------------------------------------------------------------- bounds
\* separate_turns and collab_turns range over 0..MaxTurns
MaxTurns == 4
\* config.summary_threshold ranges over 0..MaxThreshold when it is set
MaxThreshold == 3
\* backend calls that do not return text, per session
MaxFailures == 1
\* length of the arbitrary transcripts given to filter_history (SpecStrategy)
MaxLen == 2
\* increment_turn calls beyond separate_turns + collab_turns (SpecStrategy)
MaxExtraCalls == 1

\* personas in a pool
MaxPool == 3

\* similarity values are 0..MaxSim
MaxSim == 2

\* records of the transcript an agent is asked to compact (SpecAgent)
MaxHistory == 5

\* ------------------------------------------------------------- constants
SeparateStrategy == "SeparateStrategy"
CollaborativeStrategy == "CollaborativeStrategy"
SeparateTogetherStrategy == "SeparateTogetherStrategy"
StrategyClasses == {SeparateStrategy, CollaborativeStrategy, SeparateTogetherStrategy}

\* SessionEngine.agent_names: [agent1.name, agent2.name], Persona.name unique
agent_names == <<"A", "B">>
\* roles a record of an arbitrary transcript may carry ("C": no session agent)
Roles == {"A", "B", "C"}

\* what the backend does with one chat.completions.create call:
\* text, a response whose content is None, or an exception
Outcomes == {"ok", "none", "error"}

NoResponse == "[No response generated]"
ErrorIdea == "[Error generating idea]"

\* config.summary_threshold / config.verbose_prompts are no fields of Config:
\* only cli.main sets them. Unset is summary_threshold = -1 here.
Unset == 0 - 1

VARIABLES
    strategy_class,     \* the class of the strategy object
    separate_turns,     \* strategy.separate_turns
    collab_turns,       \* strategy.collab_turns
    current_turn,       \* strategy.current_turn
    in_separate_phase,  \* SeparateTogetherStrategy._in_separate_phase
    summary_threshold,  \* config.summary_threshold, Unset when cli.main did not run
    full_history,       \* SessionEngine.full_history (SpecStrategy: the caller's transcript)
    pc,                 \* position of SessionEngine.run
    current_agent_name, \* run's local current_agent_name
    filtered_history,   \* the last value filter_history returned
    messages,           \* the history context generate_idea last built
    idea,               \* run's local idea
    summary_cache,      \* agent name -> LLMAgent._summary_cache
    summary_calls,      \* agent name -> the summary generation calls it issued
    failures,           \* backend calls that returned no text so far
    op,                 \* the method called last
    returned,           \* what that method returned
    personas,           \* PersonaSelector.personas: the names, in pool order
    similarity_matrix,  \* cosine_similarity(self.embeddings), pairs i < j
    model,              \* PersonaSelector.model: "None" until it is loaded
    embeddings          \* PersonaSelector._embeddings: "None" until encoded

vars == <<strategy_class, separate_turns, collab_turns, current_turn,
          in_separate_phase, summary_threshold, full_history, pc,
          current_agent_name, filtered_history, messages, idea,
          summary_cache, summary_calls, failures, op, returned,
          personas, similarity_matrix, model, embeddings>>

persona_vars == <<personas, similarity_matrix, model, embeddings>>
strategy_vars == <<strategy_class, separate_turns, collab_turns, current_turn,
                   in_separate_phase>>
session_vars == <<summary_threshold, full_history, pc, current_agent_name,
                  filtered_history, messages, idea, summary_cache, summary_calls, failures>>

Entry(turn, role, phase, content) ==
    [turn |-> turn, role |-> role, phase |-> phase, content |-> content]

\* ------------------------------------------------------------ strategies

\* the list comprehension of strategies.py:86-89 and 188-191
RECURSIVE OwnEntries(_, _)
OwnEntriesKeepsAll(full, name) == full
OwnEntries(full, name) ==
    IF full = <<>> THEN <<>>
    ELSE IF Head(full).role = name
         THEN <<Head(full)>> \o OwnEntries(Tail(full), name)
         ELSE OwnEntries(Tail(full), name)

\* strategies.py:183-184: the value of _in_separate_phase after the check
StalePhaseFlag == in_separate_phase
PhaseFlagAfterCheck ==
    IF strategy_class = SeparateTogetherStrategy /\ current_turn >= separate_turns
    THEN FALSE
    ELSE in_separate_phase

\* the value filter_history returns
FilterAlwaysOwn(full, name) == OwnEntries(full, name)
FilterShowsAll(full, name) == full
filter_history(full, name) ==
    CASE strategy_class = SeparateStrategy -> OwnEntries(full, name)
      [] strategy_class = CollaborativeStrategy -> full
      [] OTHER -> IF PhaseFlagAfterCheck THEN OwnEntries(full, name) ELSE full

PhaseNameInclusive ==
    CASE strategy_class = SeparateStrategy -> "Separate"
      [] strategy_class = CollaborativeStrategy -> "Collaborative"
      [] OTHER -> IF current_turn <= separate_turns THEN "Separate"
                  ELSE "Collaborative"
get_phase_name ==
    CASE strategy_class = SeparateStrategy -> "Separate"
      [] strategy_class = CollaborativeStrategy -> "Collaborative"
      [] OTHER -> IF current_turn < separate_turns THEN "Separate"
                  ELSE "Collaborative"

BaseShouldContinue == current_turn < separate_turns + collab_turns
should_continue ==
    CASE strategy_class = SeparateStrategy -> current_turn < separate_turns
      [] strategy_class = CollaborativeStrategy -> current_turn < collab_turns
      [] OTHER -> current_turn < separate_turns + collab_turns

\* strategies.py:207-213
IsTransitioningFromThenOn == current_turn >= separate_turns
is_transitioning == current_turn = separate_turns

\* the state change of increment_turn
IncrementTurnTwice ==
    /\ current_turn' = current_turn + 2
    /\ UNCHANGED <<strategy_class, separate_turns, collab_turns, in_separate_phase>>
IncrementResetsFlag ==
    /\ current_turn' = current_turn + 1
    /\ in_separate_phase' = TRUE
    /\ UNCHANGED <<strategy_class, separate_turns, collab_turns>>
increment_turn ==
    /\ current_turn' = current_turn + 1
    /\ UNCHANGED <<strategy_class, separate_turns, collab_turns, in_separate_phase>>

\* ----------------------------------------------------------------- agent

Part(tag, turn, role, content) ==
    [tag |-> tag, turn |-> turn, role |-> role, content |-> content]

\* agent.py:390-406: every message with its full content
format_messages_verbatim(chunk) ==
    [i \in 1..Len(chunk) |->
        Part("full", chunk[i].turn, chunk[i].role, chunk[i].content)]

\* agent.py:422-424: the first line cut to 100 characters, "..." when cut.
\* An LLM idea is a long text; the two placeholders are short single lines.
Topic(content) == IF content = "idea" THEN "idea..." ELSE content

\* agent.py:408-427
fallback_summary(chunk) ==
    [i \in 1..Len(chunk) |->
        Part("prefix", chunk[i].turn, chunk[i].role, Topic(chunk[i].content))]

\* agent.py:368-388
summarize_chunk_with_llm(chunk, chunk_start, chunk_end, outcome) ==
    CASE outcome = "ok" -> <<Part("llm", chunk_end, "", "")>>
      [] outcome = "none" -> <<Part("unavailable", chunk_end, "", "")>>
      [] OTHER -> fallback_summary(chunk)

\* agent.py:320-333: content None fails at .strip() inside the try
update_summary_with_llm(prev_summary, new_chunk_text, end_turn, outcome) ==
    IF outcome = "ok"
    THEN <<Part("llm", end_turn, "", "")>>
    ELSE prev_summary \o <<Part("update_failed", end_turn, "", "")>> \o new_chunk_text

\* agent.py:273: the cache check; the key is "summary_upto_{end_turn}"
CacheHitUnlessFallback(cache, end_turn) ==
    /\ end_turn \in DOMAIN cache
    /\ \A i \in 1..Len(cache[end_turn]) : cache[end_turn][i].tag = "llm"
CacheNeverHits(cache, end_turn) == FALSE
CacheHit(cache, end_turn) == end_turn \in DOMAIN cache

\* agent.py:297: the assignment to the cache key
StoreOnlyLatest(cache, end_turn, summary) == (end_turn :> summary)
StoreSummary(cache, end_turn, summary) ==
    [e \in DOMAIN cache \cup {end_turn} |->
        IF e = end_turn THEN summary ELSE cache[e]]

\* one chat.completions.create call made for a summary: agent.py:369 (from
\* scratch, over chunk) or agent.py:321 (the merge of prev_summary and chunk)
SummaryCall(kind, end_turn, prev_summary, chunk, outcome) ==
    [kind |-> kind, end_turn |-> end_turn, prev_summary |-> prev_summary,
     chunk |-> chunk, outcome |-> outcome]

\* agent.py:283 without the recursion of 285-294: one call over the segment
SummaryFromScratchOnly(cache, history_segment, threshold, outcome) ==
    LET end_turn == Len(history_segment)
    IN  IF CacheHit(cache, end_turn) THEN [cache |-> cache, calls |-> <<>>]
        ELSE [cache |-> StoreSummary(cache, end_turn,
                  summarize_chunk_with_llm(history_segment, 1, end_turn, outcome[end_turn])),
              calls |-> <<SummaryCall("scratch", end_turn, <<>>, history_segment,
                                      outcome[end_turn])>>]

\* agent.py:269-298: the cache after the call and the generation calls made,
\* in order; the summary returned is the entry for Len(history_segment).
\* outcome[E] is what the backend does with the call made for boundary E.
RECURSIVE get_cumulative_summary(_, _, _, _)
get_cumulative_summary(cache, history_segment, threshold, outcome) ==
    LET end_turn == Len(history_segment)
        prev_end_turn == end_turn - threshold
    IN  IF CacheHit(cache, end_turn) THEN [cache |-> cache, calls |-> <<>>]
        ELSE IF prev_end_turn <= 0
        THEN [cache |-> StoreSummary(cache, end_turn,
                  summarize_chunk_with_llm(history_segment, 1, end_turn, outcome[end_turn])),
              calls |-> <<SummaryCall("scratch", end_turn, <<>>, history_segment,
                                      outcome[end_turn])>>]
        ELSE LET before == get_cumulative_summary(
                     cache, SubSeq(history_segment, 1, prev_end_turn), threshold, outcome)
                 prev_summary == before.cache[prev_end_turn]
                 new_chunk == SubSeq(history_segment, prev_end_turn + 1, end_turn)
             IN  [cache |-> StoreSummary(before.cache, end_turn,
                      update_summary_with_llm(prev_summary,
                          format_messages_verbatim(new_chunk), end_turn, outcome[end_turn])),
                  calls |-> Append(before.calls,
                      SummaryCall("merge", end_turn, prev_summary, new_chunk,
                                  outcome[end_turn]))]

\* the boundaries a request for end_turn issues a generation call for
RECURSIVE CallsFor(_, _, _)
CallsFor(cache, end_turn, threshold) ==
    IF CacheHit(cache, end_turn) THEN {}
    ELSE IF end_turn - threshold <= 0 THEN {end_turn}
    ELSE {end_turn} \cup CallsFor(cache, end_turn - threshold, threshold)

\* agent.py:222-224
VerbatimCountRemainder(total_turns, threshold) == total_turns % threshold
VerbatimCountOne(total_turns, threshold) == 1
verbatim_count(total_turns, threshold) ==
    IF total_turns % threshold = 0 THEN threshold ELSE total_turns % threshold

\* agent.py:226
summary_end_index(total_turns, threshold) ==
    total_turns - verbatim_count(total_turns, threshold)

NoMessages == [phase |-> "", marker |-> FALSE, summary |-> <<>>, verbatim |-> <<>>]

\* agent.py:125-152 and 192-255: the history part of the prompt
BuildMessagesNoMarker(history, phase, cache) ==
    IF phase = "Separate" \/ history = <<>>
    THEN [phase |-> phase, marker |-> FALSE, summary |-> <<>>, verbatim |-> history]
    ELSE LET end == summary_end_index(Len(history), summary_threshold)
         IN  [phase |-> phase, marker |-> FALSE,
              summary |-> IF end = 0 THEN <<>> ELSE cache[end],
              verbatim |-> SubSeq(history, end + 1, Len(history))]
build_messages(history, phase, cache) ==
    IF phase = "Separate"
    THEN [phase |-> phase, marker |-> FALSE, summary |-> <<>>, verbatim |-> history]
    ELSE IF history = <<>>
    THEN [phase |-> phase, marker |-> TRUE, summary |-> <<>>, verbatim |-> <<>>]
    ELSE LET end == summary_end_index(Len(history), summary_threshold)
         IN  [phase |-> phase, marker |-> FALSE,
              summary |-> IF end = 0 THEN <<>> ELSE cache[end],
              verbatim |-> SubSeq(history, end + 1, Len(history))]

\* agent.py:82-99
IdeaOf(outcome) ==
    CASE outcome = "ok" -> "idea"
      [] outcome = "none" -> NoResponse
      [] OTHER -> ErrorIdea

\* agent.py:125 and 207-226: the boundary of the summary a prompt asks for,
\* 0 when it asks for none; only the Collaborative branch calls
\* _build_hybrid_history
SummaryEndAnyPhase(history, phase) ==
    IF history = <<>> \/ summary_threshold < 1 THEN 0
    ELSE summary_end_index(Len(history), summary_threshold)
SummaryEnd(history, phase) ==
    IF phase = "Separate" \/ history = <<>> THEN 0
    ELSE summary_end_index(Len(history), summary_threshold)

\* generate_idea raises instead of returning: agent.py:210 and agent.py:79 read
\* config attributes that Config does not define (AttributeError unless
\* cli.main set them), agent.py:222 divides by the threshold
GenerateIdeaRaises(history, phase) ==
    \/ summary_threshold = Unset
    \/ phase # "Separate" /\ history # <<>> /\ summary_threshold = 0

\* --------------------------------------------------------------- session

\* agent.py:41 and 297: the cache written is the one of the agent called
CacheWriteAll(caches, name, cache) == [n \in DOMAIN caches |-> cache]
CacheWrite(caches, name, cache) == [caches EXCEPT ![name] = cache]

EmptyCaches == [n \in {agent_names[1], agent_names[2]} |-> <<>>]
NoCalls == [n \in {agent_names[1], agent_names[2]} |-> <<>>]

\* strategies.py:21-23 and 164-165, session.py:37-45, agent.py:41:
\* a fresh strategy, a new engine, two new agents
Init ==
    /\ strategy_class \in StrategyClasses
    /\ separate_turns \in 0..MaxTurns
    /\ collab_turns \in 0..MaxTurns
    /\ current_turn = 0
    /\ in_separate_phase = TRUE
    /\ summary_threshold \in {Unset} \cup 0..MaxThreshold
    /\ full_history = <<>>
    /\ pc = "ready"
    /\ current_agent_name = ""
    /\ filtered_history = <<>>
    /\ messages = NoMessages
    /\ idea = ""
    /\ summary_cache = EmptyCaches
    /\ summary_calls = NoCalls
    /\ failures = 0
    /\ op = ""
    /\ returned = ""
    /\ personas = <<>>
    /\ similarity_matrix = <<>>
    /\ model = "None"
    /\ embeddings = "None"

\* session.py:56-62: run is entered (session_start and last_phase only feed
\* the printed report)
RunStart ==
    /\ pc = "ready"
    /\ pc' = "while"
    /\ UNCHANGED <<strategy_vars, summary_threshold, full_history,
                   current_agent_name, filtered_history, messages, idea,
                   summary_cache, summary_calls, failures, op, returned>>
    /\ UNCHANGED persona_vars

\* session.py:72-73: agent_index = current_turn % 2 (indices from 0)
ActingAgentFirstListed == agent_names[1]
ActingAgent == agent_names[(current_turn % 2) + 1]

\* session.py:64-80: the loop test holds, the acting agent is chosen and the
\* strategy filters the transcript for it
TurnBegin ==
    /\ pc = "while"
    /\ should_continue
    /\ current_agent_name' = ActingAgent
    /\ filtered_history' = filter_history(full_history, ActingAgent)
    /\ in_separate_phase' = PhaseFlagAfterCheck
    /\ pc' = "generate"
    /\ UNCHANGED <<strategy_class, separate_turns, collab_turns, current_turn,
                   summary_threshold, full_history, messages, idea,
                   summary_cache, summary_calls, failures, op, returned>>
    /\ UNCHANGED persona_vars

\* session.py:89-93, agent.py:76-99: generate_idea returns an idea, having
\* built the prompt (and filled the acting agent's summary cache)
GenerateIdea ==
    /\ pc = "generate"
    /\ ~GenerateIdeaRaises(filtered_history, get_phase_name)
    /\ LET phase == get_phase_name
           cache == summary_cache[current_agent_name]
           end == SummaryEnd(filtered_history, phase)
           calls == IF end = 0 THEN {} ELSE CallsFor(cache, end, summary_threshold)
       IN  \E outcome \in [calls -> Outcomes], reply \in Outcomes :
             LET request == IF end = 0 THEN [cache |-> cache, calls |-> <<>>]
                            ELSE get_cumulative_summary(cache,
                                     SubSeq(filtered_history, 1, end),
                                     summary_threshold, outcome)
                 failed == Cardinality({e \in calls : outcome[e] # "ok"})
                             + (IF reply = "ok" THEN 0 ELSE 1)
             IN  /\ failures + failed <= MaxFailures
                 /\ failures' = failures + failed
                 /\ summary_cache' =
                        CacheWrite(summary_cache, current_agent_name, request.cache)
                 /\ summary_calls' =
                        [summary_calls EXCEPT ![current_agent_name] = @ \o request.calls]
                 /\ messages' = build_messages(filtered_history, phase, request.cache)
                 /\ idea' = IdeaOf(reply)
    /\ pc' = "append"
    /\ UNCHANGED <<strategy_vars, summary_threshold, full_history,
                   current_agent_name, filtered_history, op, returned>>
    /\ UNCHANGED persona_vars

\* agent.py:76-79: generate_idea raises, run propagates the exception
GenerateIdeaFails ==
    /\ pc = "generate"
    /\ GenerateIdeaRaises(filtered_history, get_phase_name)
    /\ pc' = "raised"
    /\ UNCHANGED <<strategy_vars, summary_threshold, full_history,
                   current_agent_name, filtered_history, messages, idea,
                   summary_cache, summary_calls, failures, op, returned>>
    /\ UNCHANGED persona_vars

\* session.py:96-102: the record of the turn
ActionTurnFromZero ==
    Entry(current_turn, current_agent_name, get_phase_name, idea)
Action ==
    Entry(current_turn + 1, current_agent_name, get_phase_name, idea)

\* session.py:103
PrependAction(history, action) == <<action>> \o history
AppendAction(history, action) == Append(history, action)

RecordAction ==
    /\ pc = "append"
    /\ full_history' = AppendAction(full_history, Action)
    /\ pc' = "increment"
    /\ UNCHANGED <<strategy_vars, summary_threshold, current_agent_name,
                   filtered_history, messages, idea, summary_cache, summary_calls, failures,
                   op, returned>>
    /\ UNCHANGED persona_vars

\* session.py:109
IncrementTurn ==
    /\ pc = "increment"
    /\ increment_turn
    /\ pc' = "while"
    /\ UNCHANGED <<summary_threshold, full_history, current_agent_name,
                   filtered_history, messages, idea, summary_cache, summary_calls, failures,
                   op, returned>>
    /\ UNCHANGED persona_vars

\* session.py:64 and 111-116: the loop test fails, run returns full_history
RunReturn ==
    /\ pc = "while"
    /\ ~should_continue
    /\ pc' = "done"
    /\ UNCHANGED <<strategy_vars, summary_threshold, full_history,
                   current_agent_name, filtered_history, messages, idea,
                   summary_cache, summary_calls, failures, op, returned>>
    /\ UNCHANGED persona_vars

\* session.py:128-130: an entry joins the list of its phase, a new phase gets
\* a new list
GroupKeepsLast(results, entry) ==
    [p \in DOMAIN results \cup {entry.phase} |->
        IF p = entry.phase THEN <<entry>> ELSE results[p]]
GroupAppend(results, entry) ==
    [p \in DOMAIN results \cup {entry.phase} |->
        IF p # entry.phase THEN results[p]
        ELSE IF p \in DOMAIN results THEN Append(results[p], entry)
        ELSE <<entry>>]

\* session.py:126-130: the loop over the transcript
RECURSIVE GroupEntries(_, _)
GroupEntries(results, entries) ==
    IF entries = <<>> THEN results
    ELSE GroupEntries(GroupAppend(results, Head(entries)), Tail(entries))

\* session.py:118-132: the dict returned, phase -> the list of its records
get_results_by_phase == GroupEntries(<<>>, full_history)

\* session.get_results_by_phase() once run has returned or raised
CallGetResultsByPhase ==
    /\ pc \in {"done", "raised"}
    /\ op' = "get_results_by_phase"
    /\ returned' = get_results_by_phase
    /\ UNCHANGED <<strategy_vars, session_vars>>
    /\ UNCHANGED persona_vars

Next ==
    \/ RunStart
    \/ TurnBegin
    \/ GenerateIdea
    \/ GenerateIdeaFails
    \/ RecordAction
    \/ IncrementTurn
    \/ RunReturn
    \/ CallGetResultsByPhase

Spec == Init /\ [][Next]_vars

\* ------------------------------------------- a strategy object on its own

\* the transcripts a caller may hold: records 1..n with any roles
Transcripts ==
    UNION {{[i \in 1..n |-> Entry(i, r[i], "Separate", "idea")] : r \in [1..n -> Roles]}
           : n \in 0..MaxLen}

\* strategies.py:21-23 and 164-165: a fresh strategy; the caller's transcript
InitStrategy ==
    /\ strategy_class \in StrategyClasses
    /\ separate_turns \in 0..MaxTurns
    /\ collab_turns \in 0..MaxTurns
    /\ current_turn = 0
    /\ in_separate_phase = TRUE
    /\ summary_threshold = Unset
    /\ full_history \in Transcripts
    /\ pc = "api"
    /\ current_agent_name = ""
    /\ filtered_history = <<>>
    /\ messages = NoMessages
    /\ idea = ""
    /\ summary_cache = EmptyCaches
    /\ summary_calls = NoCalls
    /\ failures = 0
    /\ op = ""
    /\ returned = "None"
    /\ personas = <<>>
    /\ similarity_matrix = <<>>
    /\ model = "None"
    /\ embeddings = "None"

\* strategy.filter_history(full_history, name)
CallFilterHistory ==
    /\ pc = "api"
    /\ \E name \in Roles :
         /\ current_agent_name' = name
         /\ filtered_history' = filter_history(full_history, name)
    /\ in_separate_phase' = PhaseFlagAfterCheck
    /\ op' = "filter_history"
    /\ returned' = "list"
    /\ UNCHANGED <<strategy_class, separate_turns, collab_turns, current_turn,
                   summary_threshold, full_history, pc, messages, idea,
                   summary_cache, summary_calls, failures>>
    /\ UNCHANGED persona_vars

\* strategy.get_phase_name()
CallGetPhaseName ==
    /\ pc = "api"
    /\ op' = "get_phase_name"
    /\ returned' = get_phase_name
    /\ UNCHANGED <<strategy_vars, session_vars>>
    /\ UNCHANGED persona_vars

\* strategy.should_continue()
CallShouldContinue ==
    /\ pc = "api"
    /\ op' = "should_continue"
    /\ returned' = should_continue
    /\ UNCHANGED <<strategy_vars, session_vars>>
    /\ UNCHANGED persona_vars

\* strategy.is_transitioning(), SeparateTogetherStrategy only
CallIsTransitioning ==
    /\ pc = "api"
    /\ strategy_class = SeparateTogetherStrategy
    /\ op' = "is_transitioning"
    /\ returned' = is_transitioning
    /\ UNCHANGED <<strategy_vars, session_vars>>
    /\ UNCHANGED persona_vars

\* strategy.increment_turn(); callers may go on after should_continue is false
CallIncrementTurn ==
    /\ pc = "api"
    /\ current_turn < separate_turns + collab_turns + MaxExtraCalls
    /\ increment_turn
    /\ op' = "increment_turn"
    /\ returned' = "None"
    /\ UNCHANGED session_vars
    /\ UNCHANGED persona_vars

NextStrategy ==
    \/ CallFilterHistory
    \/ CallGetPhaseName
    \/ CallShouldContinue
    \/ CallIsTransitioning
    \/ CallIncrementTurn

SpecStrategy == InitStrategy /\ [][NextStrategy]_vars

\* ------------------------------------------------------ persona selection

\* the separator of persona.py:76 and 98, one symbol of a name's text
Sep == " × "

\* the names a pool is drawn from: texts of symbols, one of them holding the
\* separator
Names == {<<"P">>, <<"Q">>, <<"R">>, <<"P", Sep, "Q">>}

\* the index pairs i < j of a pool of n personas
Pairs(n) == {ij \in (1..n) \X (1..n) : ij[1] < ij[2]}

\* persona.py:74-75: the pairs in the order the two loops visit them
RECURSIVE PairsFrom(_, _, _)
PairsFrom(i, j, n) ==
    IF i >= n THEN <<>>
    ELSE IF j > n THEN PairsFrom(i + 1, i + 2, n)
    ELSE <<<<i, j>>>> \o PairsFrom(i, j + 1, n)

\* persona.py:76: f"{name_i} × {name_j}"
pair_name(i, j) == personas[i] \o <<Sep>> \o personas[j]

\* persona.py:78: results[pair_name] = similarity; a dict keeps a key at the
\* position of its first insertion
DictSet(results, key, value) ==
    IF \E k \in 1..Len(results) : results[k].key = key
    THEN [k \in 1..Len(results) |->
             IF results[k].key = key THEN [key |-> key, value |-> value]
             ELSE results[k]]
    ELSE Append(results, [key |-> key, value |-> value])

RECURSIVE FillResults(_, _)
FillResults(results, pairs) ==
    IF pairs = <<>> THEN results
    ELSE FillResults(
             DictSet(results, pair_name(Head(pairs)[1], Head(pairs)[2]),
                     similarity_matrix[Head(pairs)]),
             Tail(pairs))

\* persona.py:64-80
calculate_similarity_matrix == FillResults(<<>>, PairsFrom(1, 2, Len(personas)))

\* persona.py:94: min(similarities, key=similarities.get), the first key in
\* iteration order whose value is minimal
MinKey(similarities) ==
    LET k == CHOOSE k \in 1..Len(similarities) :
                 /\ \A m \in 1..Len(similarities) :
                        similarities[m].value >= similarities[k].value
                 /\ \A m \in 1..(k - 1) :
                        similarities[m].value > similarities[k].value
    IN  similarities[k].key

\* str.split(" × ")
RECURSIVE Split(_)
Split(text) ==
    IF \A k \in 1..Len(text) : text[k] # Sep THEN <<text>>
    ELSE LET k == CHOOSE k \in 1..Len(text) :
                      /\ text[k] = Sep
                      /\ \A m \in 1..(k - 1) : text[m] # Sep
         IN  <<SubSeq(text, 1, k - 1)>> \o Split(SubSeq(text, k + 1, Len(text)))

\* persona.py:99-100: next(p for p in self.personas if p.name == name), as
\* the position of p in the pool; 0 when the generator is exhausted
FirstNamed(name) ==
    IF \E i \in 1..Len(personas) : personas[i] = name
    THEN CHOOSE i \in 1..Len(personas) :
             /\ personas[i] = name
             /\ \A m \in 1..(i - 1) : personas[m] # name
    ELSE 0

Raised(exception) == [raised |-> exception, pair |-> <<>>]
Returned(pair) == [raised |-> "", pair |-> pair]

\* persona.py:129: max(similarities, key=similarities.get), the first key in
\* iteration order whose value is maximal
MaxKey(similarities) ==
    LET k == CHOOSE k \in 1..Len(similarities) :
                 /\ \A m \in 1..Len(similarities) :
                        similarities[m].value <= similarities[k].value
                 /\ \A m \in 1..(k - 1) :
                        similarities[m].value < similarities[k].value
    IN  similarities[k].key

\* persona.py:98-100 and 133-135: the pair name parsed back into two personas
PersonasOf(selected_pair_name) ==
    LET parts == Split(selected_pair_name)
    IN  IF Len(parts) # 2 THEN Raised("ValueError")
        ELSE IF FirstNamed(parts[1]) = 0 \/ FirstNamed(parts[2]) = 0
        THEN Raised("StopIteration")
        ELSE Returned(<<FirstNamed(parts[1]), FirstNamed(parts[2])>>)

\* persona.py:82-115: the positions of the two personas returned, or the
\* exception raised (min of an empty dict is a ValueError)
select_dissimilar_pair ==
    LET similarities == calculate_similarity_matrix
    IN  IF similarities = <<>> THEN Raised("ValueError")
        ELSE PersonasOf(MinKey(similarities))

\* persona.py:117-145
select_similar_pair ==
    LET similarities == calculate_similarity_matrix
    IN  IF similarities = <<>> THEN Raised("ValueError")
        ELSE PersonasOf(MaxKey(similarities))

\* the pools of n personas with distinct names
Pools(n) ==
    {pool \in [1..n -> Names] :
        \A i, j \in 1..n : i # j => pool[i] # pool[j]}

\* the list given to PersonaSelector(personas), of any length, and the
\* pairwise similarities its embeddings have
InitPersona ==
    /\ \E n \in 0..MaxPool :
         /\ personas \in Pools(n)
         /\ similarity_matrix \in [Pairs(n) -> 0..MaxSim]
    /\ model = "None"
    /\ embeddings = "None"
    /\ pc = "construct"
    /\ op = ""
    /\ returned = Raised("")
    /\ strategy_class = SeparateTogetherStrategy
    /\ separate_turns = 0
    /\ collab_turns = 0
    /\ current_turn = 0
    /\ in_separate_phase = TRUE
    /\ summary_threshold = Unset
    /\ full_history = <<>>
    /\ current_agent_name = ""
    /\ filtered_history = <<>>
    /\ messages = NoMessages
    /\ idea = ""
    /\ summary_cache = EmptyCaches
    /\ summary_calls = NoCalls
    /\ failures = 0

\* persona.py:44
TooFewPersonasEmptyOnly == Len(personas) < 1
TooFewPersonas == Len(personas) < 2

\* persona.py:37-50: PersonaSelector(personas) raises, or loads the
\* embedding model and returns the selector
PersonaSelectorInit ==
    /\ pc = "construct"
    /\ op' = "__init__"
    /\ IF TooFewPersonas
       THEN /\ pc' = "raised"
            /\ returned' = Raised("ValueError")
            /\ model' = model
       ELSE /\ pc' = "selector"
            /\ returned' = Raised("")
            /\ model' = "loaded"
    /\ UNCHANGED <<strategy_vars, summary_threshold, full_history,
                   current_agent_name, filtered_history, messages, idea,
                   summary_cache, summary_calls, failures,
                   personas, similarity_matrix, embeddings>>

\* selector.select_dissimilar_pair(verbose=False); persona.py:59-62: the
\* embeddings are encoded at their first use
CallSelectDissimilarPair ==
    /\ pc = "selector"
    /\ op' = "select_dissimilar_pair"
    /\ returned' = select_dissimilar_pair
    /\ embeddings' = "computed"
    /\ UNCHANGED <<strategy_vars, session_vars, personas, similarity_matrix, model>>

\* selector.select_similar_pair(verbose=False)
CallSelectSimilarPair ==
    /\ pc = "selector"
    /\ op' = "select_similar_pair"
    /\ returned' = select_similar_pair
    /\ embeddings' = "computed"
    /\ UNCHANGED <<strategy_vars, session_vars, personas, similarity_matrix, model>>

NextPersona ==
    \/ PersonaSelectorInit
    \/ CallSelectDissimilarPair
    \/ CallSelectSimilarPair

SpecPersona == InitPersona /\ [][NextPersona]_vars

\* ------------------------------------------------- an agent on its own

\* what the records handed to an agent hold
AgentContents == {"idea", NoResponse}

\* the transcripts of n records a caller may hand to an agent: turns 1..n,
\* speakers alternating, ideas throughout or placeholders throughout
AgentTranscripts(n) ==
    {[i \in 1..n |->
         Entry(i, agent_names[((i - 1) % 2) + 1], "Collaborative", c)]
     : c \in AgentContents}

\* agent.py:31-41: a new agent; the transcript of the session it serves
InitAgent ==
    /\ \E n \in 0..MaxHistory : full_history \in AgentTranscripts(n)
    /\ summary_threshold \in {Unset} \cup 0..MaxThreshold
    /\ summary_cache = EmptyCaches
    /\ summary_calls = NoCalls
    /\ current_agent_name = agent_names[1]
    /\ filtered_history = <<>>
    /\ messages = NoMessages
    /\ failures = 0
    /\ pc = "agent"
    /\ op = ""
    /\ returned = "None"
    /\ idea = ""
    /\ strategy_class = CollaborativeStrategy
    /\ separate_turns = 0
    /\ collab_turns = 0
    /\ current_turn = 0
    /\ in_separate_phase = TRUE
    /\ personas = <<>>
    /\ similarity_matrix = <<>>
    /\ model = "None"
    /\ embeddings = "None"

\* agent.py:210 and 222: _build_hybrid_history raises on a non-empty history
BuildHybridHistoryRaises(history) ==
    history # <<>> /\ summary_threshold \in {Unset, 0}

\* agent.py:192-255: agent._build_hybrid_history(history, topic) on a prefix
\* of the transcript returns a context
CallBuildHybridHistory ==
    /\ pc = "agent"
    /\ \E L \in 0..Len(full_history) :
         LET history == SubSeq(full_history, 1, L)
             cache == summary_cache[current_agent_name]
             end == IF history = <<>> THEN 0
                    ELSE summary_end_index(L, summary_threshold)
             calls == IF end = 0 THEN {} ELSE CallsFor(cache, end, summary_threshold)
         IN  /\ ~BuildHybridHistoryRaises(history)
             /\ \E outcome \in [calls -> Outcomes] :
                  LET request == IF end = 0 THEN [cache |-> cache, calls |-> <<>>]
                                 ELSE get_cumulative_summary(cache,
                                          SubSeq(history, 1, end),
                                          summary_threshold, outcome)
                      failed == Cardinality({e \in calls : outcome[e] # "ok"})
                  IN  /\ failures + failed <= MaxFailures
                      /\ failures' = failures + failed
                      /\ summary_cache' =
                             CacheWrite(summary_cache, current_agent_name, request.cache)
                      /\ summary_calls' =
                             [summary_calls EXCEPT ![current_agent_name] = @ \o request.calls]
                      /\ messages' = build_messages(history, "Collaborative", request.cache)
             /\ filtered_history' = history
    /\ op' = "build_hybrid_history"
    /\ returned' = "context"
    /\ UNCHANGED <<strategy_vars, summary_threshold, full_history, pc,
                   current_agent_name, idea, persona_vars>>

\* agent.py:210 and 222: the call raises and nothing is written
CallBuildHybridHistoryFails ==
    /\ pc = "agent"
    /\ \E L \in 0..Len(full_history) :
         /\ BuildHybridHistoryRaises(SubSeq(full_history, 1, L))
         /\ filtered_history' = SubSeq(full_history, 1, L)
    /\ op' = "build_hybrid_history"
    /\ returned' = IF summary_threshold = Unset THEN "AttributeError"
                   ELSE "ZeroDivisionError"
    /\ UNCHANGED <<strategy_vars, summary_threshold, full_history, pc,
                   current_agent_name, messages, idea, summary_cache,
                   summary_calls, failures, persona_vars>>

\* agent.py:51-99: agent.generate_idea(topic, history, "Separate") on the
\* agent's own records of a prefix of the transcript returns an idea
CallGenerateIdeaSeparate ==
    /\ pc = "agent"
    /\ \E L \in 0..Len(full_history) :
         LET history == OwnEntries(SubSeq(full_history, 1, L), current_agent_name)
             cache == summary_cache[current_agent_name]
             end == SummaryEnd(history, "Separate")
             calls == IF end = 0 THEN {} ELSE CallsFor(cache, end, summary_threshold)
         IN  /\ ~GenerateIdeaRaises(history, "Separate")
             /\ \E outcome \in [calls -> Outcomes], reply \in Outcomes :
                  LET request == IF end = 0 THEN [cache |-> cache, calls |-> <<>>]
                                 ELSE get_cumulative_summary(cache,
                                          SubSeq(history, 1, end),
                                          summary_threshold, outcome)
                      failed == Cardinality({e \in calls : outcome[e] # "ok"})
                                  + (IF reply = "ok" THEN 0 ELSE 1)
                  IN  /\ failures + failed <= MaxFailures
                      /\ failures' = failures + failed
                      /\ summary_cache' =
                             CacheWrite(summary_cache, current_agent_name, request.cache)
                      /\ summary_calls' =
                             [summary_calls EXCEPT ![current_agent_name] = @ \o request.calls]
                      /\ messages' = build_messages(history, "Separate", request.cache)
                      /\ returned' = IdeaOf(reply)
             /\ filtered_history' = history
    /\ op' = "generate_idea"
    /\ UNCHANGED <<strategy_vars, summary_threshold, full_history, pc,
                   current_agent_name, idea, persona_vars>>

\* agent.py:79: generate_idea raises before the backend is called
CallGenerateIdeaSeparateFails ==
    /\ pc = "agent"
    /\ \E L \in 0..Len(full_history) :
         LET history == OwnEntries(SubSeq(full_history, 1, L), current_agent_name)
         IN  /\ GenerateIdeaRaises(history, "Separate")
             /\ filtered_history' = history
    /\ op' = "generate_idea"
    /\ returned' = "AttributeError"
    /\ UNCHANGED <<strategy_vars, summary_threshold, full_history, pc,
                   current_agent_name, messages, idea, summary_cache,
                   summary_calls, failures, persona_vars>>

\* the agent object is handed to another session, or to a ReportGenerator
\* (report.py:21, 38): the transcript it is asked about is another one
NewTranscript ==
    /\ pc = "agent"
    /\ full_history' \in AgentTranscripts(Len(full_history)) \ {full_history}
    /\ op' = "new_transcript"
    /\ returned' = "None"
    /\ UNCHANGED <<strategy_vars, summary_threshold, pc, current_agent_name,
                   filtered_history, messages, idea, summary_cache,
                   summary_calls, failures, persona_vars>>

NextAgent ==
    \/ CallBuildHybridHistory
    \/ CallBuildHybridHistoryFails
    \/ NewTranscript

SpecAgent == InitAgent /\ [][NextAgent]_vars

\* an agent serving one transcript: the prompts of both phases
NextAgentPrompts ==
    \/ CallBuildHybridHistory
    \/ CallBuildHybridHistoryFails
    \/ CallGenerateIdeaSeparate
    \/ CallGenerateIdeaSeparateFails

SpecAgentPrompts == InitAgent /\ [][NextAgentPrompts]_vars

\* ---------------------------------------------------------------- claims

\* out holds exactly the records of full whose role is name, in order:
\* it is full read at the increasing positions of those records
IsExactOwnSlice(out, full, name) ==
    LET own == {i \in 1..Len(full) : full[i].role = name}
    IN  /\ Len(out) = Cardinality(own)
        /\ \A k \in 1..Len(out) :
             /\ out[k].role = name
             /\ \E i \in own :
                  /\ Cardinality({j \in own : j <= i}) = k
                  /\ out[k] = full[i]

InSeparatePhase ==
    \/ strategy_class = SeparateStrategy
    \/ strategy_class = SeparateTogetherStrategy /\ current_turn < separate_turns

InCollaborativePhase ==
    \/ strategy_class = CollaborativeStrategy
    \/ strategy_class = SeparateTogetherStrategy /\ current_turn >= separate_turns

\* C1: in the Separate phase (SeparateStrategy always, SeparateTogetherStrategy
\* while current_turn < separate_turns) filter_history(transcript, X) returns
\* exactly the records whose role is X, in transcript order, nothing added.
C1_SeparateFilterExact ==
    (op = "filter_history" /\ InSeparatePhase)
        => IsExactOwnSlice(filtered_history, full_history, current_agent_name)

C1_Witness ==
    /\ op = "filter_history"
    /\ strategy_class = SeparateTogetherStrategy
    /\ 0 < current_turn /\ current_turn < separate_turns
    /\ Len(full_history) = MaxLen
    /\ Len(filtered_history) = 1
    /\ full_history[MaxLen].role = current_agent_name

\* C2: in the Collaborative phase (CollaborativeStrategy always,
\* SeparateTogetherStrategy once current_turn >= separate_turns)
\* filter_history returns the full transcript, whoever the acting agent is.
C2_CollaborativeFilterFull ==
    (op = "filter_history" /\ InCollaborativePhase)
        => filtered_history = full_history

C2_Witness ==
    /\ op = "filter_history"
    /\ strategy_class = SeparateTogetherStrategy
    /\ current_turn >= separate_turns /\ separate_turns > 0
    /\ Len(full_history) = MaxLen
    /\ \E i \in 1..Len(full_history) : full_history[i].role # current_agent_name
    /\ filtered_history = full_history

\* C3: for SeparateTogetherStrategy, after any sequence of calls, filter_history
\* applies the mode of the counter at that call: the own-records slice when
\* current_turn < separate_turns, the full transcript otherwise; the stored
\* flag agrees with get_phase_name() after the call.
C3_FilterModeFollowsCounter ==
    (op = "filter_history" /\ strategy_class = SeparateTogetherStrategy)
        => /\ in_separate_phase <=> (get_phase_name = "Separate")
           /\ IF current_turn < separate_turns
              THEN IsExactOwnSlice(filtered_history, full_history, current_agent_name)
              ELSE filtered_history = full_history

C3_Witness ==
    /\ op = "filter_history"
    /\ strategy_class = SeparateTogetherStrategy
    /\ separate_turns > 1 /\ current_turn = separate_turns
    /\ ~in_separate_phase
    /\ Len(full_history) > 0
    /\ \A i \in 1..Len(full_history) : full_history[i].role # current_agent_name
    /\ filtered_history = full_history

RunEnded == pc \in {"done", "raised"}

\* C4: for SeparateTogetherStrategy with separate_turns = s and collab_turns = c
\* SessionEngine.run produces exactly s + c records, the k-th tagged Separate
\* if k <= s and Collaborative otherwise, its role the first-listed agent for
\* odd k and the second for even k.
C4_RunProducesAllRecords ==
    (strategy_class = SeparateTogetherStrategy /\ RunEnded)
        => /\ Len(full_history) = separate_turns + collab_turns
           /\ \A k \in 1..Len(full_history) :
                /\ full_history[k].phase =
                       (IF k <= separate_turns THEN "Separate" ELSE "Collaborative")
                /\ full_history[k].role =
                       (IF k % 2 = 1 THEN agent_names[1] ELSE agent_names[2])

\* C5: for every strategy variant should_continue() returns true exactly when
\* current_turn < separate_turns + collab_turns.
C5_ShouldContinueUsesTotal ==
    op = "should_continue"
        => (returned <=> current_turn < separate_turns + collab_turns)

\* C5 as amended: should_continue() returns true exactly when current_turn is
\* below separate_turns + collab_turns for SeparateTogetherStrategy, below
\* separate_turns for SeparateStrategy, below collab_turns for
\* CollaborativeStrategy.
C5_ShouldContinuePerVariant ==
    op = "should_continue"
        => /\ strategy_class = SeparateTogetherStrategy
                => (returned <=> current_turn < separate_turns + collab_turns)
           /\ strategy_class = SeparateStrategy
                => (returned <=> current_turn < separate_turns)
           /\ strategy_class = CollaborativeStrategy
                => (returned <=> current_turn < collab_turns)

C5_Witness ==
    /\ op = "should_continue"
    /\ strategy_class = SeparateStrategy
    /\ separate_turns > 0 /\ collab_turns > 0
    /\ current_turn = separate_turns
    /\ returned = FALSE

\* C6: a SeparateStrategy session ends after exactly separate_turns turns, each
\* tagged Separate and generated from the acting agent's own records only; a
\* CollaborativeStrategy session ends after exactly collab_turns turns, each
\* tagged Collaborative with the full transcript visible.
C6_SingleModeSessions ==
    /\ (strategy_class = SeparateStrategy /\ RunEnded)
          => /\ Len(full_history) = separate_turns
             /\ \A k \in 1..Len(full_history) : full_history[k].phase = "Separate"
    /\ (strategy_class = CollaborativeStrategy /\ RunEnded)
          => /\ Len(full_history) = collab_turns
             /\ \A k \in 1..Len(full_history) : full_history[k].phase = "Collaborative"
    /\ (strategy_class = SeparateStrategy /\ pc = "append")
          => IsExactOwnSlice(messages.verbatim, full_history, current_agent_name)
    /\ (strategy_class = CollaborativeStrategy /\ pc = "append")
          => filtered_history = full_history

\* C7: increment_turn() raises current_turn by exactly 1 and changes nothing
\* else of the strategy or the transcript.
C7_IncrementTurnFrame ==
    [][op' = "increment_turn"
          => /\ current_turn' = current_turn + 1
             /\ UNCHANGED <<strategy_class, separate_turns, collab_turns,
                            in_separate_phase, full_history>>]_vars

C7_Witness ==
    /\ op = "increment_turn"
    /\ strategy_class = SeparateTogetherStrategy
    /\ ~in_separate_phase
    /\ current_turn = separate_turns + 1
    /\ Len(full_history) > 0

\* C8: at every turn the acting agent is agent_names[current_turn mod 2]: the
\* first-listed agent on even counters, the second on odd ones, so speakers
\* alternate from the first-listed agent and none takes two turns in a row.
C8_RoundRobin ==
    /\ pc \in {"generate", "append"}
          => current_agent_name =
                 (IF current_turn % 2 = 0 THEN agent_names[1] ELSE agent_names[2])
    /\ \A k \in 1..Len(full_history) :
          full_history[k].role =
              (IF k % 2 = 1 THEN agent_names[1] ELSE agent_names[2])
    /\ \A k \in 1..(Len(full_history) - 1) :
          full_history[k].role # full_history[k + 1].role

C8_Witness ==
    /\ pc = "done"
    /\ strategy_class = SeparateTogetherStrategy
    /\ separate_turns = 1
    /\ Len(full_history) = 4
    /\ full_history[3].role = agent_names[1]
    /\ full_history[4].role = agent_names[2]

\* C9: the turn fields of the transcript are 1, 2, ..., n in order; a record
\* carries current_turn + 1, read before the counter is advanced.
C9_TurnNumbers ==
    /\ \A k \in 1..Len(full_history) : full_history[k].turn = k
    /\ pc = "increment"
          => full_history[Len(full_history)].turn = current_turn + 1

C9_Witness ==
    /\ pc = "increment"
    /\ Len(full_history) = 3
    /\ current_turn = 2

\* C10: the transcript is append-only: every step leaves the records appended
\* so far unchanged and in place; only the append of a turn's record changes
\* the transcript, by one record at its end.
C10_AppendOnly ==
    [][/\ Len(full_history') >= Len(full_history)
       /\ SubSeq(full_history', 1, Len(full_history)) = full_history
       /\ pc # "append" => full_history' = full_history
       /\ pc = "append" => Len(full_history') = Len(full_history) + 1]_vars

C10_Witness ==
    /\ pc = "append"
    /\ strategy_class = CollaborativeStrategy
    /\ Len(full_history) >= 2
    /\ filtered_history = full_history
    /\ messages.summary # <<>>

\* generate_idea has just built a context from a non-empty slice through
\* _build_hybrid_history
CollaborativeRequest ==
    /\ pc = "append"
    /\ get_phase_name = "Collaborative"
    /\ filtered_history # <<>>

\* C11: for every slice length L > 0 and threshold T >= 1 the number of turns
\* shown verbatim is in 1..T, is L when L <= T, and is L mod T with 0
\* replaced by T.
C11_VerbatimWindow ==
    CollaborativeRequest =>
        LET L == Len(filtered_history)
            T == summary_threshold
            n == Len(messages.verbatim)
        IN  /\ T >= 1
            /\ n \in 1..T
            /\ L <= T => n = L
            /\ n = (IF L % T = 0 THEN T ELSE L % T)
            /\ messages.verbatim = SubSeq(filtered_history, L - n + 1, L)

C11_Witness ==
    /\ CollaborativeRequest
    /\ summary_threshold = 2
    /\ Len(filtered_history) = 4
    /\ Len(messages.verbatim) = 2

\* the number of generation calls in calls made for boundary E
CallsForBoundary(calls, E) ==
    Cardinality({i \in 1..Len(calls) : calls[i].end_turn = E})

\* C12: within one session the cumulative summary for an end index is
\* generated at most once, whichever agent asks for it.
C12_GeneratedOncePerSession ==
    \A E \in 1..Len(full_history) :
        CallsForBoundary(summary_calls[agent_names[1]], E)
            + CallsForBoundary(summary_calls[agent_names[2]], E) <= 1

\* C12 (amended): each agent generates the cumulative summary for an end
\* index at most once; a request of that agent for a boundary it has cached
\* issues no call and is answered with the cached entry.
C12_GeneratedOncePerAgent ==
    /\ \A a \in DOMAIN summary_calls : \A E \in 1..Len(full_history) :
          CallsForBoundary(summary_calls[a], E) <= 1
    /\ CollaborativeRequest =>
          LET E == summary_end_index(Len(filtered_history), summary_threshold)
          IN  E > 0 =>
                /\ CallsForBoundary(summary_calls[current_agent_name], E) = 1
                /\ messages.summary = summary_cache[current_agent_name][E]

C12_Witness ==
    /\ CollaborativeRequest
    /\ summary_threshold = 3
    /\ Len(filtered_history) = 6
    /\ current_agent_name = agent_names[1]
    /\ Len(summary_calls[agent_names[1]]) = 1
    /\ CallsForBoundary(summary_calls[agent_names[1]], 3) = 1
    /\ CallsForBoundary(summary_calls[agent_names[2]], 3) = 1
    /\ messages.summary = summary_cache[agent_names[1]][3]

\* C13: a request that finds the agent's cache empty and has summary boundary
\* E = k*T issues exactly k generation calls, for T, 2T, ..., E in this order:
\* a from-scratch call over turns 1..T, then one merge call per boundary that
\* combines the summary cached for the previous boundary with the next T turns.
C13_CallsFromEmptyCache ==
    [][\A a \in DOMAIN summary_cache :
          (DOMAIN summary_cache[a] = {} /\ DOMAIN summary_cache'[a] # {}) =>
              LET T == summary_threshold
                  E == summary_end_index(Len(filtered_history), T)
                  k == E \div T
                  calls == summary_calls'[a]
              IN  /\ a = current_agent_name
                  /\ k >= 1 /\ E = k * T
                  /\ Len(calls) = k
                  /\ DOMAIN summary_cache'[a] = {i * T : i \in 1..k}
                  /\ \A i \in 1..k :
                       /\ calls[i].end_turn = i * T
                       /\ calls[i].chunk =
                              SubSeq(filtered_history, (i - 1) * T + 1, i * T)
                       /\ i = 1 => /\ calls[i].kind = "scratch"
                                   /\ calls[i].prev_summary = <<>>
                       /\ i > 1 => /\ calls[i].kind = "merge"
                                   /\ calls[i].prev_summary =
                                          summary_cache'[a][(i - 1) * T]]_vars

C13_Witness ==
    /\ CollaborativeRequest
    /\ strategy_class = SeparateTogetherStrategy
    /\ separate_turns = 4
    /\ summary_threshold = 1
    /\ Len(filtered_history) = 4
    /\ Len(summary_calls[current_agent_name]) = 3
    /\ summary_calls[current_agent_name][3].kind = "merge"

\* summary holds a turn's full content
HoldsFullContent(summary) ==
    \E i \in 1..Len(summary) : summary[i].tag = "full"

\* summary has a prefix entry for record rec, tagged with its speaker
HasPrefixEntry(summary, rec) ==
    \E i \in 1..Len(summary) :
        /\ summary[i].tag = "prefix"
        /\ summary[i].turn = rec.turn
        /\ summary[i].role = rec.role

\* C14: whenever a summary generation call fails, from scratch or as a merge,
\* the summary stored for its boundary is the prefix fallback: an entry per
\* turn of the failed call, tagged with the speaker, and no turn's full content.
C14_FailedCallStoresPrefixFallback ==
    \A a \in DOMAIN summary_calls : \A i \in 1..Len(summary_calls[a]) :
        LET call == summary_calls[a][i]
            stored == summary_cache[a][call.end_turn]
        IN  call.outcome # "ok" =>
              /\ ~HoldsFullContent(stored)
              /\ \A j \in 1..Len(call.chunk) : HasPrefixEntry(stored, call.chunk[j])

\* the entry was stored by a failed call
IsFallback(summary) ==
    \E i \in 1..Len(summary) : summary[i].tag # "llm"

\* C15: what a failed generation call returns is stored under the boundary of
\* the call; from then on the entry stays as it is, the agent issues no
\* generation call for that boundary again, whatever the backend does, and a
\* request of the agent for that boundary is answered with the stored entry.
C15_FallbackIsCached ==
    [][\A a \in DOMAIN summary_calls :
         /\ \A i \in 1..Len(summary_calls'[a]) :
              LET call == summary_calls'[a][i]
              IN  call.outcome # "ok" =>
                    /\ call.end_turn \in DOMAIN summary_cache'[a]
                    /\ IsFallback(summary_cache'[a][call.end_turn])
         /\ \A E \in DOMAIN summary_cache[a] :
              IsFallback(summary_cache[a][E]) =>
                /\ E \in DOMAIN summary_cache'[a]
                /\ summary_cache'[a][E] = summary_cache[a][E]
                /\ CallsForBoundary(summary_calls'[a], E)
                       = CallsForBoundary(summary_calls[a], E)
                /\ ( /\ pc = "generate" /\ pc' = "append"
                     /\ a = current_agent_name
                     /\ E = summary_end_index(Len(filtered_history), summary_threshold) )
                       => messages'.summary = summary_cache[a][E]]_vars

C15_Witness ==
    /\ CollaborativeRequest
    /\ summary_threshold = 3
    /\ Len(filtered_history) = 6
    /\ Len(summary_calls[current_agent_name]) = 1
    /\ summary_calls[current_agent_name][1].outcome = "error"
    /\ IsFallback(summary_cache[current_agent_name][3])
    /\ messages.summary = summary_cache[current_agent_name][3]
    /\ idea = "idea"

\* C16: whatever the slice length and whatever the backend does with the
\* summary calls, _build_hybrid_history returns a context: generate_idea never
\* raises while building the context of a non-empty Collaborative slice.
C16_CompactionNeverRaises ==
    ~( /\ pc = "raised"
       /\ get_phase_name = "Collaborative"
       /\ filtered_history # <<>> )

\* the turns the loop of run makes
ExpectedTurns ==
    CASE strategy_class = SeparateStrategy -> separate_turns
      [] strategy_class = CollaborativeStrategy -> collab_turns
      [] OTHER -> separate_turns + collab_turns

\* the phase tag of the record of turn k in a run with no failures
ExpectedPhase(k) ==
    CASE strategy_class = SeparateStrategy -> "Separate"
      [] strategy_class = CollaborativeStrategy -> "Collaborative"
      [] OTHER -> IF k <= separate_turns THEN "Separate" ELSE "Collaborative"

\* C17: whatever idea generations fail, run appends one record per turn and
\* runs to completion; the record of a failed turn carries the placeholder,
\* and the records' number, turn numbers, speakers and phase tags are those of
\* a run with no failures.
C17_FailedTurnsAreRecorded ==
    /\ pc # "raised"
    /\ pc = "done" => Len(full_history) = ExpectedTurns
    /\ pc = "increment" =>
          /\ Len(full_history) = current_turn + 1
          /\ full_history[Len(full_history)].content = idea
          /\ idea \in {"idea", NoResponse, ErrorIdea}
    /\ \A k \in 1..Len(full_history) :
          /\ full_history[k].turn = k
          /\ full_history[k].role = agent_names[((k - 1) % 2) + 1]
          /\ full_history[k].phase = ExpectedPhase(k)

\* C18: whatever the slice length, the threshold T >= 1 and the backend's
\* successes and failures, the context holds one cumulative summary and the
\* full content of at most T turns: the summary holds no turn's full content.
C18_ContextBounded ==
    CollaborativeRequest =>
        /\ Len(messages.verbatim) <= summary_threshold
        /\ ~HoldsFullContent(messages.summary)

\* what a turn's record can hold: agent.py:90-99
Contents == {"idea", NoResponse, ErrorIdea}

\* the transcripts of the runs that differ from this one only in the contents
\* produced by the agents other than name
RunsDifferingInOthers(full, name) ==
    LET others == {i \in 1..Len(full) : full[i].role # name}
    IN  {[i \in 1..Len(full) |->
            IF i \in others THEN [full[i] EXCEPT !.content = c[i]] ELSE full[i]]
         : c \in [others -> Contents]}

\* C19: at every Separate-phase turn of an agent, the context built for it is
\* the one built in every run that differs only in the contents the other
\* agent produced: it is made of the agent's own records alone, with no
\* summary, so nothing of the other agent's output reaches it.
C19_SeparatePhaseIsolation ==
    (pc = "append" /\ get_phase_name = "Separate") =>
        /\ \A other \in RunsDifferingInOthers(full_history, current_agent_name) :
              build_messages(filter_history(other, current_agent_name),
                             get_phase_name,
                             summary_cache[current_agent_name]) = messages
        /\ messages.summary = <<>>
        /\ \A i \in 1..Len(messages.verbatim) :
              messages.verbatim[i].role = current_agent_name

C19_Witness ==
    /\ pc = "append"
    /\ get_phase_name = "Separate"
    /\ strategy_class = SeparateTogetherStrategy
    /\ current_agent_name = agent_names[1]
    /\ Len(full_history) = 2
    /\ full_history[2].role = agent_names[2]
    /\ full_history[2].content = ErrorIdea
    /\ Len(messages.verbatim) = 1

\* (i, j) comes before (k, l) in lexicographic order
LexBefore(a, b) == a[1] < b[1] \/ (a[1] = b[1] /\ a[2] < b[2])

\* C20: for a pool of n >= 2 personas with distinct names and any similarity
\* values, select_dissimilar_pair returns the personas at the pair (i, j),
\* i < j, of globally minimal similarity, the first such pair in
\* lexicographic order on ties.
C20_DissimilarPairIsFirstMinimum ==
    op = "select_dissimilar_pair" =>
        /\ returned.raised = ""
        /\ returned.pair \in Pairs(Len(personas))
        /\ \A ij \in Pairs(Len(personas)) :
              /\ similarity_matrix[ij] >= similarity_matrix[returned.pair]
              /\ LexBefore(ij, returned.pair)
                    => similarity_matrix[ij] > similarity_matrix[returned.pair]

\* C21: for a pool of n >= 2 personas with distinct names select_similar_pair
\* returns two distinct pool members whose similarity is the maximum over all
\* pairs i < j; with exactly 2 personas both selections return that one pair.
C21_SimilarPairIsMaximum ==
    /\ op = "select_similar_pair" =>
          /\ returned.raised = ""
          /\ returned.pair \in Pairs(Len(personas))
          /\ \A ij \in Pairs(Len(personas)) :
                similarity_matrix[ij] <= similarity_matrix[returned.pair]
    /\ (op \in {"select_similar_pair", "select_dissimilar_pair"}
            /\ Len(personas) = 2)
          => returned = Returned(<<1, 2>>)

\* C22: PersonaSelector(personas) with fewer than 2 personas raises before
\* the embedding model is loaded and before any embedding is computed, and
\* no selector exists afterwards.
C22_TooFewPersonasRejected ==
    /\ Len(personas) < 2 =>
          /\ pc \in {"construct", "raised"}
          /\ model = "None"
          /\ embeddings = "None"
          /\ op \in {"", "__init__"}
    /\ pc = "raised" =>
          /\ Len(personas) < 2
          /\ returned = Raised("ValueError")
    /\ (op = "__init__" /\ Len(personas) >= 2) =>
          /\ pc = "selector"
          /\ model = "loaded"

C22_Witness ==
    /\ pc = "raised"
    /\ op = "__init__"
    /\ Len(personas) = 1
    /\ model = "None"
    /\ embeddings = "None"
    /\ returned = Raised("ValueError")

\* C23: an invalid configuration value never reaches a running session: once
\* run has been entered the turn counts are not negative and the chunk
\* threshold the configuration carries is at least 1.
C23_InvalidConfigNeverRuns ==
    pc # "ready" =>
        /\ separate_turns >= 0
        /\ collab_turns >= 0
        /\ summary_threshold = Unset \/ summary_threshold >= 1

\* C24: a SeparateTogetherStrategy session with separate_turns = 0 is in the
\* Collaborative phase from its first turn: every record is tagged
\* Collaborative and every turn sees the full transcript; with
\* collab_turns = 0 no record is tagged Collaborative and every turn is
\* generated from the acting agent's own records.
C24_ZeroTurnEdges ==
    /\ (strategy_class = SeparateTogetherStrategy /\ separate_turns = 0) =>
          /\ \A k \in 1..Len(full_history) :
                full_history[k].phase = "Collaborative"
          /\ pc \in {"generate", "append"} =>
                /\ get_phase_name = "Collaborative"
                /\ filtered_history = full_history
          /\ pc = "append" => messages.phase = "Collaborative"
    /\ (strategy_class = SeparateTogetherStrategy /\ collab_turns = 0) =>
          /\ \A k \in 1..Len(full_history) :
                full_history[k].phase # "Collaborative"
          /\ pc \in {"generate", "append"} =>
                /\ get_phase_name = "Separate"
                /\ IsExactOwnSlice(filtered_history, full_history,
                                   current_agent_name)
          /\ pc = "append" => messages.phase = "Separate"

C24_Witness ==
    /\ strategy_class = SeparateTogetherStrategy
    /\ separate_turns = 0
    /\ collab_turns = 2
    /\ pc = "increment"
    /\ Len(full_history) = 2
    /\ full_history[1].phase = "Collaborative"
    /\ Len(filtered_history) = 1

\* _build_hybrid_history has just returned a context to its caller
ContextReturned ==
    /\ op = "build_hybrid_history"
    /\ returned = "context"

\* C25: a summary the compactor returns was computed in the session of the
\* request: the generation calls that built it read the records of the
\* transcript the request is about, never those of another session.
C25_SummaryFromOwnSession ==
    (ContextReturned /\ messages.summary # <<>>) =>
        LET T == summary_threshold
            B == Len(filtered_history) - Len(messages.verbatim)
            calls == summary_calls[current_agent_name]
        IN  \A i \in 1..(B \div T) :
                calls[i].chunk = SubSeq(filtered_history, (i - 1) * T + 1, i * T)

\* C26: building a compacted context leaves the transcript as it is (length,
\* order and every record) and writes nothing but the summary cache of the
\* agent that builds it.
C26_CompactionFrame ==
    [][op' = "build_hybrid_history" =>
          /\ full_history' = full_history
          /\ filtered_history' = SubSeq(full_history, 1, Len(filtered_history'))
          /\ \A n \in DOMAIN summary_cache \ {current_agent_name} :
                /\ summary_cache'[n] = summary_cache[n]
                /\ summary_calls'[n] = summary_calls[n]
          /\ UNCHANGED <<strategy_vars, summary_threshold, current_agent_name,
                         persona_vars>>]_vars

C26_Witness ==
    /\ ContextReturned
    /\ Len(full_history) = MaxHistory
    /\ filtered_history = full_history
    /\ summary_threshold = 2
    /\ DOMAIN summary_cache[agent_names[1]] = {2, 4}
    /\ DOMAIN summary_cache[agent_names[2]] = {}

\* C27: for an empty history the compactor returns the "no previous
\* discussion" marker, issues no generation call and leaves the cache as it
\* is; for no history is the context it returns empty.
C27_EmptyHistoryMarker ==
    [][(op' = "build_hybrid_history" /\ returned' = "context") =>
          /\ filtered_history' = <<>> =>
                /\ messages'.marker
                /\ messages'.summary = <<>>
                /\ messages'.verbatim = <<>>
                /\ summary_cache' = summary_cache
                /\ summary_calls' = summary_calls
          /\ filtered_history' # <<>> =>
                /\ ~messages'.marker
                /\ messages'.verbatim # <<>>]_vars

C27_Witness ==
    /\ ContextReturned
    /\ filtered_history = <<>>
    /\ messages.marker
    /\ Len(full_history) > 0
    /\ Len(summary_calls[current_agent_name]) = 2

\* C28: an agent's summary cache only grows and its entries never change:
\* once a value is stored for boundary E no step changes or removes it, and
\* no generation call is issued for E again.
C28_CacheGrowsOnly ==
    [][\A a \in DOMAIN summary_cache : \A E \in DOMAIN summary_cache[a] :
          /\ E \in DOMAIN summary_cache'[a]
          /\ summary_cache'[a][E] = summary_cache[a][E]
          /\ CallsForBoundary(summary_calls'[a], E)
                 = CallsForBoundary(summary_calls[a], E)
          /\ CallsForBoundary(summary_calls[a], E) = 1]_vars

C28_Witness ==
    /\ ContextReturned
    /\ summary_threshold = 1
    /\ DOMAIN summary_cache[current_agent_name] = {1, 2, 3}
    /\ Len(summary_calls[current_agent_name]) = 3
    /\ Len(filtered_history) = 2
    /\ messages.summary = summary_cache[current_agent_name][1]

\* C29: for a history of L > 0 records the context covers every turn once:
\* the summary covers turns 1..B and the verbatim part turns B+1..L, with
\* B = L - verbatim_count a multiple of the threshold and 0 <= B < L; when
\* B = 0 the whole history is verbatim, no summary is requested and no
\* generation call is made.
C29_ContextCoversSlice ==
    [][(op' = "build_hybrid_history" /\ returned' = "context"
            /\ filtered_history' # <<>>) =>
          LET L == Len(filtered_history')
              T == summary_threshold
              B == L - Len(messages'.verbatim)
              calls == summary_calls'[current_agent_name]
          IN  /\ 0 <= B /\ B < L
              /\ B % T = 0
              /\ L - B <= T
              /\ messages'.verbatim = SubSeq(filtered_history', B + 1, L)
              /\ B = 0 =>
                    /\ messages'.summary = <<>>
                    /\ summary_calls' = summary_calls
                    /\ summary_cache' = summary_cache
              /\ B > 0 =>
                    /\ messages'.summary = summary_cache'[current_agent_name][B]
                    /\ \A i \in 1..(B \div T) :
                          /\ calls[i].end_turn = i * T
                          /\ Len(calls[i].chunk) = T
                          /\ \A j \in 1..T :
                                calls[i].chunk[j].turn = (i - 1) * T + j]_vars

C29_Witness ==
    /\ ContextReturned
    /\ summary_threshold = 2
    /\ Len(filtered_history) = 5
    /\ Len(messages.verbatim) = 1
    /\ messages.verbatim[1].turn = 5
    /\ messages.summary = summary_cache[current_agent_name][4]

\* the positive multiples of the threshold smaller than n
BoundariesBelow(n) ==
    IF summary_threshold >= 1
    THEN {k \in 1..n : k % summary_threshold = 0 /\ k < n}
    ELSE {}

\* C30: after any sequence of compaction requests of one agent on prefixes of
\* a transcript of L turns, the generation calls it has issued are as many as
\* the entries of its cache and at most as many as the positive multiples of
\* the threshold smaller than L.
C30_CallsBoundedByChunks ==
    \A a \in DOMAIN summary_calls :
        /\ Len(summary_calls[a]) = Cardinality(DOMAIN summary_cache[a])
        /\ Len(summary_calls[a]) <= Cardinality(BoundariesBelow(Len(full_history)))
        /\ DOMAIN summary_cache[a] \subseteq BoundariesBelow(Len(full_history))

C30_Witness ==
    /\ ContextReturned
    /\ Len(full_history) = 5
    /\ summary_threshold = 2
    /\ Len(summary_calls[current_agent_name]) = 2
    /\ Len(filtered_history) = 3

\* C31: once a failed call has stored a fallback for boundary P, the agent
\* never asks the backend for P again, and every summary it computes for a
\* larger boundary E = P + k*T is computed after it by a merge call whose
\* previous summary is the entry cached for E - T: the chain of merges that
\* builds E starts from the fallback text stored for P.
C31_FallbackPoisonsLaterSummaries ==
    \A a \in DOMAIN summary_calls :
        LET calls == summary_calls[a]
            T == summary_threshold
        IN  \A i \in 1..Len(calls) :
                LET P == calls[i].end_turn
                IN  calls[i].outcome # "ok" =>
                      /\ CallsForBoundary(calls, P) = 1
                      /\ IsFallback(summary_cache[a][P])
                      /\ \A j \in 1..Len(calls) :
                            calls[j].end_turn > P =>
                              /\ j > i
                              /\ (calls[j].end_turn - P) % T = 0
                              /\ calls[j].kind = "merge"
                              /\ calls[j].prev_summary =
                                     summary_cache[a][calls[j].end_turn - T]
                              /\ calls[j].end_turn = P + T =>
                                     IsFallback(calls[j].prev_summary)

C31_Witness ==
    /\ CollaborativeRequest
    /\ summary_threshold = 1
    /\ Len(summary_calls[current_agent_name]) = 3
    /\ summary_calls[current_agent_name][1].outcome = "error"
    /\ summary_calls[current_agent_name][2].prev_summary =
           summary_cache[current_agent_name][1]
    /\ summary_calls[current_agent_name][3].outcome = "ok"
    /\ messages.summary = summary_cache[current_agent_name][3]

\* C32: turns are strictly sequential: a generation call is issued only from
\* the loop test, when the records of all earlier turns are in the transcript
\* and the counter has been advanced past them; while it is outstanding no
\* other one is issued; in the Collaborative phase the slice it is given is
\* the whole transcript, the records of turns 1..current_turn.
C32_TurnsSequential ==
    [][/\ (pc' = "generate" /\ pc # "generate") =>
             /\ pc = "while"
             /\ Len(full_history) = current_turn
             /\ \A k \in 1..current_turn : full_history[k].turn = k
             /\ UNCHANGED <<current_turn, full_history>>
             /\ get_phase_name = "Collaborative" =>
                   /\ filtered_history' = full_history
                   /\ Len(filtered_history') = current_turn
       /\ pc = "generate" =>
             /\ pc' \in {"append", "raised"}
             /\ UNCHANGED <<current_turn, full_history, filtered_history,
                            current_agent_name>>
       /\ pc = "append" =>
             /\ pc' = "increment"
             /\ Len(full_history') = current_turn + 1
       /\ pc = "increment" =>
             /\ pc' = "while"
             /\ current_turn' = Len(full_history)]_vars

C32_Witness ==
    /\ pc = "generate"
    /\ strategy_class = SeparateTogetherStrategy
    /\ get_phase_name = "Collaborative"
    /\ current_turn = 3
    /\ Len(filtered_history) = 3
    /\ filtered_history[3].phase = "Separate"
    /\ filtered_history[3].role = agent_names[1]
    /\ current_agent_name = agent_names[2]

\* C33: the compactor is used only in the Collaborative phase: a
\* Separate-phase generation issues no summary generation call and leaves the
\* agent's summary cache as it is, and its prompt shows the agent's own prior
\* records verbatim, all of them whatever their number, with no summary.
C33_SeparatePhaseNeverCompacts ==
    [][op' = "generate_idea" =>
          /\ summary_calls' = summary_calls
          /\ summary_cache' = summary_cache
          /\ returned' # "AttributeError" =>
                /\ messages'.phase = "Separate"
                /\ messages'.summary = <<>>
                /\ ~messages'.marker
                /\ messages'.verbatim = filtered_history'
                /\ \E L \in 0..Len(full_history) :
                      IsExactOwnSlice(messages'.verbatim,
                                      SubSeq(full_history, 1, L),
                                      current_agent_name)]_vars

C33_Witness ==
    /\ op = "generate_idea"
    /\ returned = "idea"
    /\ summary_threshold = 1
    /\ Len(filtered_history) = 3
    /\ Len(messages.verbatim) = 3
    /\ DOMAIN summary_cache[current_agent_name] = {1, 2}

\* out holds exactly the records of full tagged with phase, in order
IsExactPhaseSlice(out, full, phase) ==
    LET tagged == {i \in 1..Len(full) : full[i].phase = phase}
    IN  /\ Len(out) = Cardinality(tagged)
        /\ \A k \in 1..Len(out) :
             \E i \in tagged :
                /\ Cardinality({j \in tagged : j <= i}) = k
                /\ out[k] = full[i]

\* the number of records in the group of phase, 0 when the group is absent
GroupSize(groups, phase) ==
    IF phase \in DOMAIN groups THEN Len(groups[phase]) ELSE 0

C35_TransitionAtOneTurn ==
    [][strategy_class = SeparateTogetherStrategy =>
          /\ op' = "is_transitioning" =>
                (returned' <=> current_turn' = separate_turns')
          /\ is_transitioning =>
                /\ get_phase_name = "Collaborative"
                /\ \A t \in 0..(current_turn - 1) : t < separate_turns
          /\ current_turn' >= current_turn
          /\ (current_turn >= separate_turns /\ current_turn' # current_turn)
                => ~is_transitioning'
          /\ current_turn > separate_turns => ~is_transitioning]_vars

C35_Witness ==
    /\ op = "is_transitioning"
    /\ returned = FALSE
    /\ separate_turns = 2
    /\ collab_turns = 2
    /\ current_turn = 3

\* C36: in a session started with a fresh strategy and an empty transcript
\* the transcript has as many records as the counter says at the loop test,
\* during the generation of a turn and when run returns or raises; between
\* the append of a turn's record and the increment it has one record more.
C36_TranscriptTracksCounter ==
    /\ pc \in {"ready", "while", "generate", "append", "done", "raised"}
          => Len(full_history) = current_turn
    /\ pc = "increment" => Len(full_history) = current_turn + 1

C36_Witness ==
    /\ pc = "increment"
    /\ strategy_class = SeparateTogetherStrategy
    /\ Len(full_history) = 4
    /\ current_turn = 3
    /\ full_history[4].phase = "Collaborative"
    /\ full_history[1].phase = "Separate"

\* C37: in every reachable state of an agent's summary cache every key is a
\* positive multiple of the threshold T and the keys are downward closed: with
\* k*T cached, T, 2T, ..., (k-1)*T are cached too, and each of them was
\* stored before the next larger one.
C37_CacheKeysDownwardClosed ==
    \A a \in DOMAIN summary_cache :
        LET T == summary_threshold
            cache == summary_cache[a]
            calls == summary_calls[a]
        IN  \A E \in DOMAIN cache :
                /\ T >= 1
                /\ E > 0
                /\ E % T = 0
                /\ \A k \in 1..(E \div T) : k * T \in DOMAIN cache
                /\ E > T =>
                      \E i, j \in 1..Len(calls) :
                          /\ i < j
                          /\ calls[i].end_turn = E - T
                          /\ calls[j].end_turn = E

C37_Witness ==
    /\ ContextReturned
    /\ summary_threshold = 1
    /\ DOMAIN summary_cache[current_agent_name] = 1..4
    /\ summary_calls[current_agent_name][4].end_turn = 4
    /\ Len(filtered_history) = 3
    /\ failures = 1

\* C38: within one session every cache entry a Collaborative-phase request
\* can be answered from was computed from the records of the requesting
\* slice: when the acting agent asks for boundary E, each boundary P <= E it
\* has cached was generated by a call whose chunk is records P-T+1..P of the
\* slice, and a request for a cached E issues no call and is given that entry.
C38_CacheHitsAreFaithful ==
    [][(pc = "generate" /\ pc' = "append" /\ get_phase_name = "Collaborative"
            /\ filtered_history # <<>>) =>
          LET a == current_agent_name
              T == summary_threshold
              E == summary_end_index(Len(filtered_history), T)
              calls == summary_calls[a]
          IN  /\ filtered_history = full_history
              /\ \A P \in DOMAIN summary_cache[a] :
                    P <= E =>
                      \E i \in 1..Len(calls) :
                          /\ calls[i].end_turn = P
                          /\ calls[i].chunk =
                                 SubSeq(filtered_history, P - T + 1, P)
                          /\ P > T => calls[i].prev_summary = summary_cache[a][P - T]
              /\ (E > 0 /\ E \in DOMAIN summary_cache[a]) =>
                    /\ summary_calls' = summary_calls
                    /\ summary_cache' = summary_cache
                    /\ messages'.summary = summary_cache[a][E]]_vars

C38_Witness ==
    /\ CollaborativeRequest
    /\ separate_turns = 3
    /\ summary_threshold = 3
    /\ Len(filtered_history) = 6
    /\ Len(summary_calls[current_agent_name]) = 1
    /\ summary_calls[current_agent_name][1].chunk = SubSeq(full_history, 1, 3)
    /\ messages.summary = summary_cache[current_agent_name][3]

\* the record appended last and the transcript before it
LastRecord == full_history[Len(full_history)]
EarlierRecords == SubSeq(full_history, 1, Len(full_history) - 1)

\* slice holds records of name only
OnlyOwnRecords(slice, name) ==
    \A i \in 1..Len(slice) : slice[i].role = name

\* C39: for every record of a session the phase tag stored in it equals the
\* phase label passed to the generation of its turn, and the record is tagged
\* Separate if and only if the slice given to its speaker contained only that
\* speaker's own earlier records.
C39_TagIffOwnRecordsOnly ==
    pc = "increment" =>
        /\ LastRecord.phase = messages.phase
        /\ LastRecord.phase = "Separate"
              <=> OnlyOwnRecords(filtered_history, LastRecord.role)

\* C39 (amended): the phase tag equals the phase label passed to the
\* generation; a record tagged Separate was generated from exactly its
\* speaker's own earlier records and a record tagged Collaborative from the
\* whole earlier transcript; the tag is Separate if and only if the slice
\* held the speaker's own records only, whenever the earlier transcript holds
\* a record of another speaker.
C39_TagMatchesVisibilityMode ==
    pc = "increment" =>
        /\ LastRecord.phase = messages.phase
        /\ LastRecord.phase \in {"Separate", "Collaborative"}
        /\ LastRecord.phase = "Separate" =>
              IsExactOwnSlice(filtered_history, EarlierRecords, LastRecord.role)
        /\ LastRecord.phase = "Collaborative" =>
              filtered_history = EarlierRecords
        /\ (\E i \in 1..Len(EarlierRecords) :
                EarlierRecords[i].role # LastRecord.role) =>
              (LastRecord.phase = "Separate"
                  <=> OnlyOwnRecords(filtered_history, LastRecord.role))

C39_Witness ==
    /\ pc = "increment"
    /\ strategy_class = SeparateTogetherStrategy
    /\ separate_turns = 3
    /\ Len(full_history) = 3
    /\ LastRecord.phase = "Separate"
    /\ Len(filtered_history) = 1
    /\ filtered_history[1].role = LastRecord.role
    /\ EarlierRecords[2].role # LastRecord.role

\* C40: the phase of a SeparateTogetherStrategy is monotone: under any
\* sequence of calls the only phase change is from Separate to Collaborative;
\* once get_phase_name() is Collaborative it is never Separate again,
\* filter_history returns the whole transcript from then on, and the stored
\* flag, cleared only in the Collaborative phase, is never set again.
C40_PhaseMonotone ==
    [][strategy_class = SeparateTogetherStrategy =>
          /\ get_phase_name # get_phase_name' =>
                /\ get_phase_name = "Separate"
                /\ get_phase_name' = "Collaborative"
          /\ get_phase_name = "Collaborative" =>
                /\ op' = "get_phase_name" => returned' = "Collaborative"
                /\ op' = "filter_history" => filtered_history' = full_history'
          /\ ~in_separate_phase =>
                /\ ~in_separate_phase'
                /\ get_phase_name = "Collaborative"]_vars

C40_Witness ==
    /\ op = "filter_history"
    /\ strategy_class = SeparateTogetherStrategy
    /\ separate_turns = 1
    /\ current_turn = 3
    /\ ~in_separate_phase
    /\ Len(full_history) = MaxLen
    /\ OnlyOwnRecords(full_history, "C")
    /\ current_agent_name = "A"
    /\ filtered_history = full_history

====
